---- MODULE Spec2Model ----
(***************************************************************************)
(* Model of pypots-cli dev (pypots/utils/commands/dev.py): DevCommand      *)
(* validates its six arguments and the working directory, then dispatches  *)
(* to one of cleanup / build / run tests / lint, each a fixed sequence of  *)
(* directory removals or external commands.                                *)
(***************************************************************************)
EXTENDS Naturals, Sequences, FiniteSets, TLC

\* ---- bounds ----------------------------------------------------------------
\* longest test-name pattern given to -k (patterns are "", "t", "tt", ...)
MaxPatternLen == 2
\* number of entries of the working directory besides the ones the code names
MaxOtherEntries == 1

RECURSIVE Repeat(_, _)
Repeat(s, n) == IF n = 0 THEN "" ELSE Repeat(s, n - 1) \o s

\* values argparse can give to -k: None (<<>>) or a string (<<s>>), "" included
KValues == {<<>>} \cup {<<Repeat("t", n)>> : n \in 0..MaxPatternLen}

\* names os.listdir(".") can return
CleanupDirs == {"build", "dist", "pypots.egg-info"}
OtherEntries == {Repeat("x", n) : n \in 1..MaxOtherEntries}
EntryNames == {"docs", "pypots"} \cup CleanupDirs \cup OtherEntries

\* ---- exceptions ------------------------------------------------------------
\* an exception value: its class, its message, and the exception it wraps
Exc(type, msg, cause) == [type |-> type, msg |-> msg, cause |-> cause]
NoExc == Exc("None", "", <<>>)

IMPORT_ERROR_MESSAGE == "pypots-cli dev command is for PyPOTS developers to run tests easily."
MSG_CWD == "Command pypots-cli dev can only be run under the root directory of project PyPOTS"
MSG_K == "Argument -k should combine the use of --run_tests."
MSG_SHOW_COVERAGE == "Argument --show_coverage should combine the use of --run_tests."
MSG_CLEANUP == "Argument --cleanup should be used alone."

\* ---- the request -----------------------------------------------------------
\* DevCommand.__init__: the six fields, stored as given
DevCommand(build, cleanup, run_tests, k, show_coverage, lint_code) ==
    [build |-> build, cleanup |-> cleanup, run_tests |-> run_tests, k |-> k,
     show_coverage |-> show_coverage, lint_code |-> lint_code]

Requests ==
    {DevCommand(b, c, t, k, s, l) :
        b \in BOOLEAN, c \in BOOLEAN, t \in BOOLEAN, k \in KValues,
        s \in BOOLEAN, l \in BOOLEAN}

\* Python truthiness of self._k: None and "" are false
Truthy(k) == k # <<>> /\ k[1] # ""

VARIABLES
    req,      \* the DevCommand instance
    cwd,      \* the entries of the current working directory
    pc,       \* the statement of run() that executes next
    trace,    \* the side-effecting steps performed so far, in order
    result    \* the exception run() raised, NoExc while none

vars == <<req, cwd, pc, trace, result>>

\* ---- variants of check_arguments with one assertion misplaced --------------
\* the --cleanup assertion left out
check_arguments_NoCleanupRule(r, dir) ==
    IF ~("docs" \in dir /\ "pypots" \in dir)
        THEN Exc("AssertionError", MSG_CWD, <<>>)
    ELSE IF r.k # <<>> /\ ~r.run_tests
        THEN Exc("AssertionError", MSG_K, <<>>)
    ELSE IF r.show_coverage /\ ~r.run_tests
        THEN Exc("AssertionError", MSG_SHOW_COVERAGE, <<>>)
    ELSE NoExc

\* if self._k: in place of if self._k is not None:
check_arguments_TruthyK(r, dir) ==
    IF ~("docs" \in dir /\ "pypots" \in dir)
        THEN Exc("AssertionError", MSG_CWD, <<>>)
    ELSE IF Truthy(r.k) /\ ~r.run_tests
        THEN Exc("AssertionError", MSG_K, <<>>)
    ELSE IF r.show_coverage /\ ~r.run_tests
        THEN Exc("AssertionError", MSG_SHOW_COVERAGE, <<>>)
    ELSE IF r.cleanup /\ ~(~r.run_tests /\ ~r.lint_code)
        THEN Exc("AssertionError", MSG_CLEANUP, <<>>)
    ELSE NoExc

\* the working-directory assertion placed after the flag assertions
check_arguments_ContextLast(r, dir) ==
    IF r.k # <<>> /\ ~r.run_tests
        THEN Exc("AssertionError", MSG_K, <<>>)
    ELSE IF r.show_coverage /\ ~r.run_tests
        THEN Exc("AssertionError", MSG_SHOW_COVERAGE, <<>>)
    ELSE IF r.cleanup /\ ~(~r.run_tests /\ ~r.lint_code)
        THEN Exc("AssertionError", MSG_CLEANUP, <<>>)
    ELSE IF ~("docs" \in dir /\ "pypots" \in dir)
        THEN Exc("AssertionError", MSG_CWD, <<>>)
    ELSE NoExc

\* ---- check_arguments -------------------------------------------------------
\* The exception check_arguments raises for request r run in a directory
\* whose listing is dir; NoExc when every assertion passes.  The assertions
\* are evaluated in source order and the first that fails raises.
check_arguments(r, dir) ==
    LET containing_docs == "docs" \in dir
        containing_pypots == "pypots" \in dir
        whether_under_dir_docs == containing_docs /\ containing_pypots
    IN  IF ~whether_under_dir_docs
            THEN Exc("AssertionError", MSG_CWD, <<>>)
        ELSE IF r.k # <<>> /\ ~r.run_tests
            THEN Exc("AssertionError", MSG_K, <<>>)
        ELSE IF r.show_coverage /\ ~r.run_tests
            THEN Exc("AssertionError", MSG_SHOW_COVERAGE, <<>>)
        ELSE IF r.cleanup /\ ~(~r.run_tests /\ ~r.lint_code)
            THEN Exc("AssertionError", MSG_CLEANUP, <<>>)
        ELSE NoExc

\* ---- run: command construction --------------------------------------------
\* f"pytest -k {self._k}" if self._k else "pytest"
pytest_command(k) == IF Truthy(k) THEN "pytest -k " \o k[1] ELSE "pytest"

\* f"coverage run -m {pytest_command}" if self._show_coverage else pytest_command
command_to_run_test(r) ==
    IF r.show_coverage
        THEN "coverage run -m " \o pytest_command(r.k)
        ELSE pytest_command(r.k)

\* ---- variants of the control flow of run() ---------------------------------
\* if self._build tested before if self._cleanup
Branch_BuildFirst(r) ==
    IF r.build THEN "build"
    ELSE IF r.cleanup THEN "cleanup"
    ELSE IF r.run_tests THEN "test"
    ELSE IF r.lint_code THEN "black"
    ELSE "returned"

\* the removal of .pytest_cache placed in the branch without coverage only
Successor_SkipCache(l, r) ==
    CASE l = "cleanup" -> "returned"
      [] l = "build" -> "returned"
      [] l = "test" -> IF r.show_coverage THEN "report" ELSE "rm_cache"
      [] l = "report" -> "rm_coverage"
      [] l = "rm_coverage" -> "returned"
      [] l = "rm_cache" -> "returned"
      [] l = "black" -> "flake8"
      [] l = "flake8" -> "returned"

\* the coverage data removed before the report is printed
Successor_ReportAfterRemoval(l, r) ==
    CASE l = "cleanup" -> "returned"
      [] l = "build" -> "returned"
      [] l = "test" -> IF r.show_coverage THEN "rm_coverage" ELSE "rm_cache"
      [] l = "rm_coverage" -> "report"
      [] l = "report" -> "rm_cache"
      [] l = "rm_cache" -> "returned"
      [] l = "black" -> "flake8"
      [] l = "flake8" -> "returned"

\* the flake8 call left out
Successor_BlackOnly(l, r) ==
    CASE l = "cleanup" -> "returned"
      [] l = "build" -> "returned"
      [] l = "test" -> IF r.show_coverage THEN "report" ELSE "rm_cache"
      [] l = "report" -> "rm_coverage"
      [] l = "rm_coverage" -> "rm_cache"
      [] l = "rm_cache" -> "returned"
      [] l = "black" -> "returned"
      [] l = "flake8" -> "returned"

\* raise RuntimeError() in place of raise RuntimeError(e)
except_clauses_NoCause(e) ==
    IF e.type = "ImportError"
        THEN Exc("ImportError", IMPORT_ERROR_MESSAGE, <<>>)
        ELSE Exc("RuntimeError", "", <<>>)

\* ---- run: control flow -----------------------------------------------------
\* the if/elif chain of run(): the first statement executed after validation
Branch(r) ==
    IF r.cleanup THEN "cleanup"
    ELSE IF r.build THEN "build"
    ELSE IF r.run_tests THEN "test"
    ELSE IF r.lint_code THEN "black"
    ELSE "returned"

\* the statement that follows statement l of run() when l completes
Successor(l, r) ==
    CASE l = "cleanup" -> "returned"
      [] l = "build" -> "returned"
      [] l = "test" -> IF r.show_coverage THEN "report" ELSE "rm_cache"
      [] l = "report" -> "rm_coverage"
      [] l = "rm_coverage" -> "rm_cache"
      [] l = "rm_cache" -> "returned"
      [] l = "black" -> "flake8"
      [] l = "flake8" -> "returned"

\* the except clauses of run(): what run() raises when its try body raised e
except_clauses(e) ==
    IF e.type = "ImportError"
        THEN Exc("ImportError", IMPORT_ERROR_MESSAGE, <<>>)
        ELSE Exc("RuntimeError", e.msg, <<e>>)

\* ---- BaseCommand.execute_command ------------------------------------------
\* The command runs to completion and either succeeds, fails (non-zero exit
\* or invocation failure), or fails for a missing dependency.
ExecOutcomes == {"ok", "error", "import_error"}

\* the exception execute_command raises for a failed command
Raised(outcome, cmd) ==
    IF outcome = "import_error"
        THEN Exc("ImportError", cmd, <<>>)
        ELSE Exc("Exception", cmd, <<>>)

\* one step of the trace
Step(op, arg, outcome, changed) ==
    [op |-> op, arg |-> arg, outcome |-> outcome, changed |-> changed]

\* self.execute_command(cmd) executed as statement l of run()
execute_command(l, cmd) ==
    /\ \E outcome \in ExecOutcomes, changed \in BOOLEAN :
        /\ trace' = Append(trace, Step("exec", cmd, outcome, changed))
        /\ IF outcome = "ok"
              THEN pc' = Successor(l, req) /\ result' = result
              ELSE pc' = "raised" /\ result' = except_clauses(Raised(outcome, cmd))
    /\ UNCHANGED <<req, cwd>>

\* ---- the state machine -----------------------------------------------------
Init ==
    /\ req \in Requests
    /\ cwd \in SUBSET EntryNames
    /\ pc = "check"
    /\ trace = <<>>
    /\ result = NoExc

\* check_arguments reporting the violation without leaving run()
CheckArguments_Continue ==
    /\ pc = "check"
    /\ pc' = Branch(req)
    /\ result' = check_arguments(req, cwd)
    /\ UNCHANGED <<req, cwd, trace>>

\* run(), line 147: self.check_arguments(); an AssertionError leaves run()
CheckArguments ==
    /\ pc = "check"
    /\ LET e == check_arguments(req, cwd)
       IN  IF e = NoExc
              THEN pc' = Branch(req) /\ result' = result
              ELSE pc' = "raised" /\ result' = e
    /\ UNCHANGED <<req, cwd, trace>>

\* the three shutil.rmtree(..., ignore_errors=True) calls
Cleanup ==
    /\ pc = "cleanup"
    /\ trace' = trace \o <<Step("rmtree", "build", "ok", "build" \in cwd),
                           Step("rmtree", "dist", "ok", "dist" \in cwd),
                           Step("rmtree", "pypots.egg-info", "ok",
                                "pypots.egg-info" \in cwd)>>
    /\ cwd' = cwd \ {"build", "dist", "pypots.egg-info"}
    /\ pc' = Successor("cleanup", req)
    /\ UNCHANGED <<req, result>>

Build ==
    /\ pc = "build"
    /\ execute_command("build", "python setup.py sdist bdist bdist_wheel")

RunTest ==
    /\ pc = "test"
    /\ execute_command("test", command_to_run_test(req))

CoverageReport ==
    /\ pc = "report"
    /\ execute_command("report", "coverage report -m")

RmCoverage ==
    /\ pc = "rm_coverage"
    /\ execute_command("rm_coverage", "rm -rf .coverage")

RmPytestCache ==
    /\ pc = "rm_cache"
    /\ execute_command("rm_cache", "rm -rf .pytest_cache")

Black ==
    /\ pc = "black"
    /\ execute_command("black", "black .")

Flake8 ==
    /\ pc = "flake8"
    /\ execute_command("flake8", "flake8 .")

Next ==
    \/ CheckArguments
    \/ Cleanup
    \/ Build
    \/ RunTest
    \/ CoverageReport
    \/ RmCoverage
    \/ RmPytestCache
    \/ Black
    \/ Flake8

Spec == Init /\ [][Next]_vars

TypeOK ==
    /\ req \in Requests
    /\ cwd \subseteq EntryNames
    /\ pc \in {"check", "cleanup", "build", "test", "report", "rm_coverage",
               "rm_cache", "black", "flake8", "returned", "raised"}
    /\ result.type \in {"None", "AssertionError", "RuntimeError", "ImportError"}

\* ---- vocabulary of the properties -----------------------------------------
IsPrefix(s, t) == Len(s) <= Len(t) /\ \A i \in 1..Len(s) : s[i] = t[i]

\* what was done, step by step: <<operation, argument>>
Done == [i \in 1..Len(trace) |-> <<trace[i].op, trace[i].arg>>]

Ended == pc \in {"returned", "raised"}
AtProjectRoot == "docs" \in cwd /\ "pypots" \in cwd
ValidationFailed == pc = "raised" /\ result.type = "AssertionError"
ValidationPassed == pc # "check" /\ result.type # "AssertionError"

\* the action the priority order cleanup > build > runTests > lintCode selects
FirstTrueFlag ==
    IF req.cleanup THEN "cleanup"
    ELSE IF req.build THEN "build"
    ELSE IF req.run_tests THEN "runTests"
    ELSE IF req.lint_code THEN "lintCode"
    ELSE "none"

RunTestsDispatched == ValidationPassed /\ FirstTrueFlag = "runTests"
LintDispatched == ValidationPassed /\ FirstTrueFlag = "lintCode"

\* the steps of the runTests action, in order
TestSteps ==
    IF req.show_coverage
        THEN <<<<"exec", "coverage run -m " \o pytest_command(req.k)>>,
               <<"exec", "coverage report -m">>,
               <<"exec", "rm -rf .coverage">>,
               <<"exec", "rm -rf .pytest_cache">>>>
        ELSE <<<<"exec", pytest_command(req.k)>>,
               <<"exec", "rm -rf .pytest_cache">>>>

\* the steps of each action, in order
ActionSteps ==
    CASE FirstTrueFlag = "cleanup" ->
            <<<<"rmtree", "build">>, <<"rmtree", "dist">>,
              <<"rmtree", "pypots.egg-info">>>>
      [] FirstTrueFlag = "build" ->
            <<<<"exec", "python setup.py sdist bdist bdist_wheel">>>>
      [] FirstTrueFlag = "runTests" -> TestSteps
      [] FirstTrueFlag = "lintCode" ->
            <<<<"exec", "black .">>, <<"exec", "flake8 .">>>>
      [] FirstTrueFlag = "none" -> <<>>

\* ---- C1 --------------------------------------------------------------------
\* C1: when check_arguments fails, run() raises its AssertionError with no
\* external command invoked and no directory removed, for every request and
\* every working directory.
C1_NoActionBeforeValidationError ==
    (check_arguments(req, cwd) # NoExc \/ result.type = "AssertionError")
        => /\ trace = <<>>
           /\ pc \in {"check", "raised"}
           /\ pc = "raised" => result = check_arguments(req, cwd)

C1_Witness ==
    /\ ValidationFailed
    /\ req.build /\ req.cleanup /\ req.run_tests /\ req.lint_code
    /\ trace = <<>>

\* ---- C2 --------------------------------------------------------------------
\* C2 as stated: with cleanup and (runTests or lintCode), validation from the
\* project root fails with the "cleanup should be used alone" error whatever
\* build, testFilter and showCoverage are.
C2_CleanupAloneWhateverTheRest ==
    (pc # "check" /\ AtProjectRoot /\ req.cleanup
        /\ (req.run_tests \/ req.lint_code))
        => ValidationFailed /\ result.msg = MSG_CLEANUP

\* C2 amended: with cleanup and (runTests or lintCode), validation from the
\* project root fails; the error is the "cleanup should be used alone" error
\* unless testFilter or showCoverage is given without runTests, in which case
\* it is the combined-usage error of the first of those two rules violated.
C2_CleanupCombinationRejected ==
    (pc # "check" /\ AtProjectRoot /\ req.cleanup
        /\ (req.run_tests \/ req.lint_code))
        => /\ ValidationFailed
           /\ trace = <<>>
           /\ result.msg =
                IF req.k # <<>> /\ ~req.run_tests THEN MSG_K
                ELSE IF req.show_coverage /\ ~req.run_tests
                    THEN MSG_SHOW_COVERAGE
                ELSE MSG_CLEANUP

C2_Witness ==
    /\ ValidationFailed
    /\ result.msg = MSG_CLEANUP
    /\ req.cleanup /\ req.lint_code /\ ~req.run_tests /\ req.build

\* ---- C3 --------------------------------------------------------------------
\* C3: when an external command fails, run() ends by raising a RuntimeError
\* that wraps the exception of the failed command, and the failed command is
\* the last step performed.
C3_ToolFailureAborts ==
    \A i \in 1..Len(trace) :
        trace[i].outcome # "ok"
            => /\ i = Len(trace)
               /\ pc = "raised"
               /\ trace[i].outcome = "error"
                    => /\ result.type = "RuntimeError"
                       /\ result.cause = <<Exc("Exception", trace[i].arg, <<>>)>>

C3_Witness ==
    /\ pc = "raised"
    /\ result.type = "RuntimeError"
    /\ req.show_coverage
    /\ Len(trace) = 2
    /\ trace[2].arg = "coverage report -m"
    /\ trace[2].outcome = "error"

\* ---- C4 --------------------------------------------------------------------
\* C4: after a successful validation, the steps performed are steps of the
\* action of the first true flag in the order cleanup > build > runTests >
\* lintCode, in that action's order, and a run that returns has performed
\* exactly that action; with no flag set nothing is performed.
C4_OnlyTheFirstTrueFlagActs ==
    ValidationPassed
        => /\ IsPrefix(Done, ActionSteps)
           /\ pc = "returned" => Done = ActionSteps

C4_Witness ==
    /\ pc = "returned"
    /\ result = NoExc
    /\ req.cleanup /\ req.build
    /\ Len(trace) = 3
    /\ cwd \cap CleanupDirs = {}

\* ---- C5 --------------------------------------------------------------------
\* C5 as stated: every run that dispatched the runTests action has removed
\* the test cache directory after the test-runner invocation by the time it
\* ends, whatever the outcome of the test-runner and coverage steps.
C5_CacheRemovedWhateverTheOutcome ==
    (RunTestsDispatched /\ Ended)
        => \E j \in 2..Len(trace) : trace[j].arg = "rm -rf .pytest_cache"

\* C5 amended: a run that dispatched the runTests action removes the test
\* cache directory, after the test-runner invocation and before it ends,
\* exactly when the test-runner invocation and (with showCoverage) the
\* coverage report and the coverage data removal all succeeded; when one of
\* them fails the run ends without removing the test cache directory.
C5_CacheRemovedAfterSuccessfulSteps ==
    (RunTestsDispatched /\ Ended)
        => LET earlier == {i \in 1..Len(trace) :
                              trace[i].arg # "rm -rf .pytest_cache"}
           IN  /\ Len(trace) >= 1
               /\ trace[1].arg = command_to_run_test(req)
               /\ (\A i \in earlier : trace[i].outcome = "ok")
                    <=> /\ Len(trace) >= 2
                        /\ trace[Len(trace)].arg = "rm -rf .pytest_cache"

C5_Witness ==
    /\ pc = "returned"
    /\ req.run_tests /\ req.show_coverage /\ Truthy(req.k)
    /\ Len(trace) = 4
    /\ trace[4].arg = "rm -rf .pytest_cache"

\* ---- C6 --------------------------------------------------------------------
\* C6: with runTests false and testFilter set (the empty pattern included)
\* or showCoverage true, validation from the project root fails with the
\* error asking to combine the flag with --run_tests.
C6_DependentFlagNeedsRunTests ==
    (pc # "check" /\ AtProjectRoot /\ ~req.run_tests
        /\ (req.k # <<>> \/ req.show_coverage))
        => /\ ValidationFailed
           /\ result.msg = IF req.k # <<>> THEN MSG_K ELSE MSG_SHOW_COVERAGE
           /\ trace = <<>>

C6_Witness ==
    /\ ValidationFailed
    /\ AtProjectRoot
    /\ req.k = <<"">> /\ ~req.run_tests /\ ~req.show_coverage
    /\ result.msg = MSG_K

C8_CoverageStepsInOrder ==
    RunTestsDispatched
        => /\ IsPrefix(Done, TestSteps)
           /\ pc = "returned" => Done = TestSteps
           /\ \A i \in 1..Len(trace) :
                /\ i > 1 => trace[i - 1].outcome = "ok"
                /\ ~req.show_coverage
                    => trace[i].arg \in {pytest_command(req.k),
                                         "rm -rf .pytest_cache"}

C8_Witness ==
    /\ pc = "returned"
    /\ req.run_tests /\ req.show_coverage /\ req.k = <<>>
    /\ Done = <<<<"exec", "coverage run -m pytest">>,
                <<"exec", "coverage report -m">>,
                <<"exec", "rm -rf .coverage">>,
                <<"exec", "rm -rf .pytest_cache">>>>

\* ---- C9 --------------------------------------------------------------------
\* C9: the lintCode action invokes black first and flake8 second and nothing
\* else; flake8 is invoked in every run in which black completed, whether or
\* not black changed anything.
C9_BlackThenFlake8 ==
    LintDispatched
        => /\ IsPrefix(Done, <<<<"exec", "black .">>, <<"exec", "flake8 .">>>>)
           /\ (Len(trace) >= 1 /\ trace[1].outcome = "ok")
                => (pc = "flake8" \/ Len(trace) = 2)
           /\ Ended => Len(trace) >= 1

C9_Witness ==
    /\ pc = "returned"
    /\ req.lint_code
    /\ Len(trace) = 2
    /\ trace[1].arg = "black ." /\ ~trace[1].changed
    /\ trace[2].arg = "flake8 ."

\* ---- C10 -------------------------------------------------------------------
\* C10: whenever the runTests action is dispatched, the test-runner command
\* carries "-k <pattern>" if and only if testFilter is set (is not None), for
\* every set value of testFilter.
C10_FilterAppliedIffSet ==
    (RunTestsDispatched /\ Len(trace) >= 1)
        => LET runner == IF req.k # <<>> THEN "pytest -k " \o req.k[1]
                                         ELSE "pytest"
           IN  trace[1].arg = IF req.show_coverage
                                 THEN "coverage run -m " \o runner
                                 ELSE runner

====
